---- MODULE Spec2Model ----
(***************************************************************************)
(* The ComfyUI job-submission and completion-polling protocol as the       *)
(* scripts of this repository implement it.  One generation request is     *)
(* followed from the command line (or the GenerationSettings object)       *)
(* through the service check, the workflow build, the POST /prompt and the *)
(* history polling loop, for each script that carries its own copy of the  *)
(* protocol.  Times are whole seconds.  Float parameters (cfg, guidance)   *)
(* are kept in tenths: 3.5 is 35.  SequentialSpec and BatchSpec follow the *)
(* runs of the pipelines that work through a list of such requests.        *)
(***************************************************************************)
EXTENDS Integers, Sequences, FiniteSets, TLC

VARIABLES
    script,        \* which script's copy of the protocol runs
    requested,     \* the settings the caller supplied
    effective,     \* the settings the script goes on with after its main()
    template,      \* the template object the script holds in memory
    workflow,      \* the graph that is built and submitted, or NoGraph
    pc,            \* position of the script
    now,           \* wall clock, seconds
    start_time,    \* start_time of the wait loop
    attempt,       \* loop variable of submit_generation
    posts,         \* POST /prompt requests issued
    postLog,       \* the POSTs issued, in order: when, and the answer
    polled,        \* a history request has been issued
    healthChecked, \* a /system_stats request has been issued
    is_running,    \* ComfyUIManager.is_running
    prompt_id,     \* the job handle the submit returned, or NoHandle
    remote,        \* state of the job at the remote service
    remoteMsg,     \* exception_message of the remote execution error
    result,        \* how the request ended, "none" while it runs
    delivered,     \* the value or exception class the caller receives
    deliveredMsg,  \* the remote error text that reaches the caller
    raised,        \* the exception that ended the request, or "none"
    endedAt,       \* elapsed seconds of the wait when it ended
    lastSeen,      \* what the latest history answer read out said of the job
    templateFile,  \* the workflow template as it is stored on disk
    validated,     \* the graph validate_workflow was applied to, or NoGraph
    reported,      \* the artifacts the wait reported for the job
    mode,          \* "single", or how a pipeline runs its list of tasks
    job,           \* the task the script is working on
    saved,         \* the state of each task as the script left it
    awaiting,      \* batch mode: every task was submitted, the waits run
    lastSleep,     \* the time.sleep that ended the latest loop iteration
    pc2,           \* a second caller that waits for the same prompt_id
    now2,          \* the second caller's clock
    start_time2,   \* start_time of the second caller's wait loop
    result2,       \* how the second caller's wait ended, "none" while it runs
    lastSeen2,     \* what the second caller's latest history answer said
    process,       \* ComfyUIManager.process: the Popen object, or NoProcess
    spawned,       \* server processes subprocess.Popen has created so far
    live,          \* the spawned server processes that have not ended
    inContext,     \* the body of a "with ComfyUIManager()" block runs
    lastCli,       \* the latest "server" command of the CLI and its exit code
    cliStarted,    \* the process the latest successful "server start" left
    lastCall,      \* the method of the manager that was called last
    runner,        \* the script whose loop over its jobs runs
    roundLog,      \* how each job the loop has taken up so far went
    rpc,           \* position of the loop
    total_generated, \* the loop's count of jobs that succeeded
    returned,      \* what the run returned to its caller, "none" before
    file,          \* the workflow file the converter works on, or NoFile
    original,      \* what the file held before the converter first ran
    backup,        \* the .json.gguf_backup file next to it, or NoFile
    runs,          \* the calls of process_workflow_file so far
    data,          \* a workflow held in memory, given to convert_workflow
    dataLog        \* what each convert_workflow(data) returned

vars == <<script, requested, effective, template, workflow, pc, now, start_time,
          attempt, posts, postLog, polled, healthChecked, is_running,
          prompt_id, remote, remoteMsg, result, delivered, deliveredMsg,
          raised, endedAt, lastSeen, templateFile, validated, reported,
          mode, job, saved, awaiting, lastSleep, pc2, now2, start_time2,
          result2, lastSeen2, process, spawned, live, inContext, lastCli,
          cliStarted, lastCall, runner, roundLog, rpc, total_generated,
          returned, file, original, backup, runs, data, dataLog>>

inputVars  == <<script, requested, templateFile, mode>>
buildVars  == <<effective, template, workflow, validated>>
submitVars == <<attempt, posts, postLog, prompt_id>>
waitVars   == <<start_time, polled, endedAt, lastSeen, lastSleep>>
outVars    == <<result, delivered, deliveredMsg, raised, reported>>
remoteVars == <<remote, remoteMsg>>
taskVars   == <<job, saved, awaiting>>
callerVars == <<pc2, now2, start_time2, result2, lastSeen2>>
\* What the steps of one request leave alone.
managerVars == <<process, spawned, live>>
cliVars    == <<inContext, lastCli, cliStarted, lastCall>>
roundVars  == <<runner, roundLog, rpc, total_generated, returned>>
convertVars == <<file, original, backup, runs, data, dataLog>>
\* What the two callers of a wait leave alone.
restVars   == <<managerVars, cliVars, roundVars, convertVars>>
auxVars    == <<callerVars, restVars>>

(***************************************************************************)
(* Bounds of the model.                                                    *)
(***************************************************************************)
\* The deadline every wait runs against.  The code's deadlines (300, 180
\* and 120 seconds) only set how many iterations a loop makes.
Deadline == 8
\* The longest one HTTP request is let to take (the code allows 5 or 10
\* seconds, or sets no limit).
MaxQueryTime == 1
\* How long after the deadline the clock is followed.
ClockSlack == 9

\* How many tasks a pipeline run has (styles times variations, or the
\* length of the settings list of batch_generate).
MaxJobs == 2

MaxClock == Deadline + ClockSlack

\* No graph: the graph without nodes.
NoGraph  == [n \in {} |-> 0]
NoHandle == "NoHandle"
NoMsg    == "NoMsg"

Scripts == {"manager", "ultra", "luxury", "wellness", "simple_wellness",
            "wellness_working", "baseline", "cli", "smoke", "flux_kontext",
            "complex", "ukrainian"}

(***************************************************************************)
(* Settings.  A settings record carries the numeric fields of              *)
(* GenerationSettings; "count" is batch_size, --images or --variations,    *)
(* whichever the script takes.                                             *)
(***************************************************************************)
\* The settings of the concrete scenario: steps 12, cfg 3.5, 1024x1024,
\* seed 42.
BaseSettings ==
    [steps |-> 12, cfg |-> 35, width |-> 1024, height |-> 1024,
     seed |-> 42, count |-> 1]

\* BaseSettings with one field changed at a time.
SettingsSet ==
    {BaseSettings}
    \cup {[BaseSettings EXCEPT !.steps = v]  : v \in {0, 28}}
    \cup {[BaseSettings EXCEPT !.cfg = v]    : v \in {4, 20}}
    \cup {[BaseSettings EXCEPT !.width = v]  : v \in {512}}
    \cup {[BaseSettings EXCEPT !.height = v] : v \in {768}}
    \cup {[BaseSettings EXCEPT !.seed = v]   : v \in {0, -1}}
    \cup {[BaseSettings EXCEPT !.count = v]  : v \in {0, 2, 6}}

\* The settings a script takes from its caller: the wellness generator reads
\* batch size, steps and cfg from argv, the two pipelines read --variations,
\* the other scripts read no numeric parameter at all.
SettingsOf(s) ==
    CASE s \in {"manager", "flux_kontext"} -> SettingsSet
      [] s \in {"luxury", "ultra"} ->
            {r \in SettingsSet : r.steps = 12 /\ r.cfg = 35 /\ r.width = 1024
                                 /\ r.height = 1024}
      [] s = "wellness" ->
            {r \in SettingsSet : r.width = 1024 /\ r.height = 1024
                                 /\ r.seed = 42 /\ r.count \in {0, 1, 2}}
      [] OTHER -> {BaseSettings}

Max(a, b) == IF a >= b THEN a ELSE b
Min(a, b) == IF a <= b THEN a ELSE b

\* luxury_ai_pipeline.main: variations = max(1, min(5, args.variations))
LuxuryVariations(v) == Max(1, Min(5, v))

\* ultra_portrait_gen.main: variations = max(1, min(3, args.variations))
UltraVariations(v) == Max(1, Min(3, v))

\* flux_kontext_generator.main: the three range checks that return 1.
FluxMainAccepts(r) ==
    /\ ~(r.count < 1 \/ r.count > 8)
    /\ ~(r.steps < 5 \/ r.steps > 50)
    /\ ~(r.cfg < 5 \/ r.cfg > 100)

\* Whether main() gets its argument parser built.  flux_kontext_generator
\* registers '--height' with the short option '-h', which argparse has
\* already given to --help: add_argument raises ArgumentError, and main()
\* ends there on every run.
ParserBuilds(s) == s # "flux_kontext"

\* What main() does with the numeric parameters: how it ends ("none" when it
\* goes on to generate) and what it leaves of the parameters.  "Rejected"
\* is flux_kontext's return 1.
MainOutcome(s, r) ==
    CASE ~ParserBuilds(s) -> [end |-> "Crashed", eff |-> r]
      [] s = "luxury" ->
            [end |-> "none",
             eff |-> [r EXCEPT !.count = LuxuryVariations(r.count)]]
      [] s = "ultra"  ->
            [end |-> "none",
             eff |-> [r EXCEPT !.count = UltraVariations(r.count)]]
      [] s = "flux_kontext" ->
            [end |-> IF FluxMainAccepts(r) THEN "none" ELSE "Rejected",
             eff |-> r]
      [] OTHER -> [end |-> "none", eff |-> r]

(***************************************************************************)
(* Workflow graphs.  A graph maps node ids to the node's inputs, and the   *)
(* inputs map a field name to its literal value.  Texts are kept as codes. *)
(***************************************************************************)
TemplateText == 0
PromptText   == 1

NoInputs == [f \in {} |-> 0]

\* The generation part of workflow_combined_full, the Kontext pipeline the
\* repository ships: 5 prompt, 7 FluxGuidance, 8 EmptyLatentImage,
\* 9 KSampler.
TemplateKontext ==
    ("1" :> NoInputs) @@ ("2" :> NoInputs) @@ ("3" :> NoInputs)
    @@ ("4" :> NoInputs)
    @@ ("5" :> ("text" :> TemplateText))
    @@ ("6" :> ("text" :> TemplateText))
    @@ ("7" :> ("guidance" :> 50))
    @@ ("8" :> (("width" :> 1024) @@ ("height" :> 1408)
                @@ ("batch_size" :> 1)))
    @@ ("9" :> (("seed" :> 42) @@ ("steps" :> 12) @@ ("cfg" :> 10)
                @@ ("denoise" :> 10)))
    @@ ("10" :> NoInputs)

\* The turbo layout as customize_workflow describes it: 4 positive prompt,
\* 6 guidance, 7 EmptyLatentImage, 8 KSampler, 10 SaveImage.
TemplateTurbo ==
    ("1" :> NoInputs) @@ ("2" :> NoInputs) @@ ("3" :> NoInputs)
    @@ ("4" :> ("text" :> TemplateText))
    @@ ("5" :> ("text" :> TemplateText))
    @@ ("6" :> ("guidance" :> 35))
    @@ ("7" :> (("width" :> 1024) @@ ("height" :> 1024)
                @@ ("batch_size" :> 1)))
    @@ ("8" :> (("seed" :> 7) @@ ("steps" :> 8) @@ ("cfg" :> 10)
                @@ ("denoise" :> 10)))
    @@ ("9" :> NoInputs)
    @@ ("10" :> ("filename_prefix" :> TemplateText))

\* A turbo template that keeps its SaveImage node under another id, so that
\* it has no node 10 (ultra_portrait_gen takes any file with --workflow).
TemplateTurboNoSave ==
    [n \in DOMAIN TemplateTurbo \ {"10"} |-> TemplateTurbo[n]]

\* dict.update on a node's inputs: the fields of u replace or extend those
\* of the node; a node absent from the graph is skipped.
UpdateInputs(w, n, u) ==
    IF n \in DOMAIN w THEN [w EXCEPT ![n] = u @@ w[n]] ELSE w

\* random.randint(1000000, 9999999) of create_workflow
FluxRandomSeeds == {1000000, 9999999}
\* random.randint(100000, 999999) of the wellness generators
WellnessRandomSeeds == {100000, 999999}

\* ComfyUIManager._update_workflow_settings
UpdateWorkflowSettings(w, s) ==
    LET w3 == UpdateInputs(w,  "3", "text" :> PromptText)
        w6 == UpdateInputs(w3, "6", "guidance" :> s.cfg)
        w7 == UpdateInputs(w6, "7", "batch_size" :> s.count)
        w8 == UpdateInputs(w7, "8", "steps" :> s.steps)
    IN  IF s.seed > 0 THEN UpdateInputs(w8, "9", "seed" :> s.seed) ELSE w8

\* FluxKontextGenerator.create_workflow; rnd is the value random.randint
\* returns when it is called.  The guidance argument keeps its default 7.5.
FluxCreateWorkflow(w, s, rnd) ==
    LET w5 == [w  EXCEPT !["5"] = ("text" :> PromptText) @@ @]
        w8 == [w5 EXCEPT !["8"] = ("batch_size" :> s.count)
                                  @@ ("width" :> s.width)
                                  @@ ("height" :> s.height) @@ @]
        w9 == [w8 EXCEPT !["9"] = ("steps" :> s.steps) @@ ("cfg" :> s.cfg)
                                  @@ ("seed" :> IF s.seed # 0 THEN s.seed
                                                ELSE rnd) @@ @]
    IN  [w9 EXCEPT !["7"] = ("guidance" :> 75) @@ @]

\* ultra_portrait_gen.customize_workflow
CustomizeWorkflow(t, seed) ==
    LET w4  == UpdateInputs(t,  "4", "text" :> PromptText)
        w7  == UpdateInputs(w4, "7", ("batch_size" :> 1) @@ ("width" :> 1024)
                                     @@ ("height" :> 1024))
        w8  == UpdateInputs(w7, "8", ("seed" :> seed) @@ ("steps" :> 12)
                                     @@ ("cfg" :> 20) @@ ("denoise" :> 10))
        w6  == UpdateInputs(w8, "6", "guidance" :> 20)
    IN  UpdateInputs(w6, "10", "filename_prefix" :> PromptText)

\* The node ids luxury_ai_pipeline.submit_generation indexes without
\* testing for them, in the order it writes them.
LuxuryWrites == <<"5", "8", "10">>

\* workflow[n] raises KeyError for one of them.
LuxuryKeyError(t) ==
    \E i \in 1..Len(LuxuryWrites) : LuxuryWrites[i] \notin DOMAIN t

\* The customisation at the head of luxury_ai_pipeline.submit_generation.
\* The writes before the first missing node have been made when the
\* KeyError is raised.
LuxuryCustomize(t, seed) ==
    LET w5  == UpdateInputs(t, "5", "text" :> PromptText)
        w8  == IF "5" \in DOMAIN t
               THEN UpdateInputs(w5, "8", "seed" :> seed) ELSE w5
    IN  IF {"5", "8"} \subseteq DOMAIN t
        THEN UpdateInputs(w8, "10", "filename_prefix" :> PromptText)
        ELSE w8

\* create_test_baseline.create_test_workflow; seed is int(time.time()) %
\* 1000000.
BaselineWorkflow(t, seed) ==
    LET w5 == UpdateInputs(t,  "5", "text" :> PromptText)
        w8 == UpdateInputs(w5, "8", "batch_size" :> 1)
        w9 == UpdateInputs(w8, "9", ("seed" :> seed) @@ ("steps" :> 8)
                                    @@ ("cfg" :> 10))
    IN  UpdateInputs(w9, "7", "guidance" :> 50)

\* The literal graph of the wellness generators: 3 KSampler,
\* 5 EmptyLatentImage, 6 and 7 the prompts.
WellnessWorkflow(seed, steps, cfg, batch) ==
    ("3" :> (("seed" :> seed) @@ ("steps" :> steps) @@ ("cfg" :> cfg)
             @@ ("denoise" :> 10)))
    @@ ("4" :> NoInputs)
    @@ ("5" :> (("width" :> 1024) @@ ("height" :> 1024)
                @@ ("batch_size" :> batch)))
    @@ ("6" :> ("text" :> PromptText))
    @@ ("7" :> ("text" :> TemplateText))
    @@ ("8" :> NoInputs)
    @@ ("9" :> NoInputs)

\* generate_wellness_poses.create_wellness_workflow, called with seed=-1
CreateWellnessWorkflow(s, seed, rnd) ==
    WellnessWorkflow(IF seed = -1 THEN rnd ELSE seed, s.steps, s.cfg, s.count)

\* complex_portrait_generator.create_speed_optimized_workflow for the
\* default target time: 12 steps, cfg 3.0, 1024x1024, seed int(time.time()).
ComplexWorkflow(seed) ==
    ("1" :> NoInputs) @@ ("2" :> NoInputs) @@ ("3" :> NoInputs)
    @@ ("4" :> NoInputs)
    @@ ("5" :> ("text" :> PromptText))
    @@ ("6" :> ("text" :> TemplateText))
    @@ ("7" :> (("width" :> 1024) @@ ("height" :> 1024)
                @@ ("batch_size" :> 1)))
    @@ ("8" :> (("seed" :> seed) @@ ("steps" :> 12) @@ ("cfg" :> 30)
                @@ ("denoise" :> 10)))
    @@ ("9" :> NoInputs)
    @@ ("10" :> ("filename_prefix" :> TemplateText))

\* The customisation at the head of generate_ukrainian_portrait: prompt,
\* 1024x1408, 12 steps, cfg 1.0 and the fixed seed 202509301442, which is
\* kept here by its first eight digits.
UkrainianWorkflow(t) ==
    LET w5 == UpdateInputs(t,  "5", "text" :> PromptText)
        w8 == UpdateInputs(w5, "8", ("batch_size" :> 1) @@ ("width" :> 1024)
                                    @@ ("height" :> 1408))
    IN  UpdateInputs(w8, "9", ("seed" :> 20250930) @@ ("steps" :> 12)
                              @@ ("cfg" :> 10))

\* validate_workflow with node 3 left out of its required_keys.
ValidateWorkflowTwoKeys(w) == \A key \in {"1", "2"} : key \in DOMAIN w

\* ComfyUIManager.validate_workflow
ValidateWorkflow(w) == \A key \in {"1", "2", "3"} : key \in DOMAIN w

\* The template file each script loads.
TemplateOf(s) ==
    IF s \in {"ultra", "luxury"} THEN TemplateTurbo ELSE TemplateKontext

\* A Kontext file without its VAELoader node 3, which validate_workflow
\* does not accept.
TemplateKontextNoVae ==
    [n \in DOMAIN TemplateKontext \ {"3"} |-> TemplateKontext[n]]

\* A Kontext file without its EmptyLatentImage node 8, which the KSampler
\* node 9 takes its latent_image from.
TemplateKontextNoLatent ==
    [n \in DOMAIN TemplateKontext \ {"8"} |-> TemplateKontext[n]]

\* The node references [node_id, output_index] in the inputs of the
\* Kontext pipeline, as pairs <<referring node, node referred to>>.
KontextLinks ==
    {<<"4", "1">>, <<"4", "2">>, <<"5", "4">>, <<"6", "4">>, <<"7", "5">>,
     <<"9", "4">>, <<"9", "7">>, <<"9", "6">>, <<"9", "8">>, <<"10", "9">>,
     <<"10", "3">>}

\* The node references of the literal graph of complex_portrait_generator.
ComplexLinks ==
    {<<"4", "1">>, <<"4", "2">>, <<"5", "4">>, <<"6", "4">>, <<"8", "4">>,
     <<"8", "5">>, <<"8", "6">>, <<"8", "7">>, <<"9", "8">>, <<"9", "3">>,
     <<"10", "9">>}

\* The node references a graph holds: those of the nodes it has.
Links(s, g) ==
    CASE s = "manager" -> {l \in KontextLinks : l[1] \in DOMAIN g}
      [] s = "complex" -> {l \in ComplexLinks : l[1] \in DOMAIN g}
      [] OTHER -> {}

\* The template files a script can find at its workflow path.
TemplatesOf(s) ==
    CASE s \in {"ultra", "luxury"} -> {TemplateTurbo, TemplateTurboNoSave}
      [] s = "manager" -> {TemplateKontext, TemplateKontextNoVae,
                           TemplateKontextNoLatent}
      [] OTHER -> {TemplateOf(s)}

\* The graph a script builds from what its main() left of the settings.
\* rnd is the value of the random seed the script may draw.
BuildWorkflow(s, tmpl, e, rnd) ==
    CASE s = "manager"      -> UpdateWorkflowSettings(tmpl, e)
      [] s = "flux_kontext" -> FluxCreateWorkflow(tmpl, e, rnd)
      [] s = "ultra"        -> CustomizeWorkflow(tmpl, e.seed)
      [] s = "luxury"       -> LuxuryCustomize(tmpl, e.seed)
      [] s = "baseline"     -> BaselineWorkflow(tmpl, rnd)
      [] s = "wellness"     -> CreateWellnessWorkflow(e, -1, rnd)
      [] s \in {"simple_wellness", "wellness_working"} ->
                               WellnessWorkflow(rnd, 21, 38, 1)
      [] s = "complex"      -> ComplexWorkflow(rnd)
      [] s = "ukrainian"    -> UkrainianWorkflow(tmpl)
      [] OTHER              -> tmpl

\* The seeds a script can draw while it builds.
RandomSeedsOf(s) ==
    CASE s = "flux_kontext" -> FluxRandomSeeds
      [] s \in {"wellness", "simple_wellness", "wellness_working",
                "baseline", "complex"} -> WellnessRandomSeeds
      [] OTHER -> {0}

\* The node and field where a script's graph keeps each setting.
SamplerNode(s) ==
    CASE s \in {"wellness", "simple_wellness", "wellness_working"} -> "3"
      [] s \in {"ultra", "luxury", "complex"} -> "8"
      [] OTHER -> "9"

LatentNode(s) ==
    CASE s \in {"wellness", "simple_wellness", "wellness_working"} -> "5"
      [] s \in {"ultra", "luxury", "complex"} -> "7"
      [] OTHER -> "8"

(***************************************************************************)
(* The remote service.  A submitted job is queued, then running; it can    *)
(* show up in the history without a status or outputs before it ends, and  *)
(* it ends in one of four terminal states.                                 *)
(***************************************************************************)
RemoteStates == {"queued", "running", "listed", "success", "success_noout",
                 "error", "error_partial"}
RemoteTerminal == {"success", "success_noout", "error", "error_partial"}
RemoteErrors == {"error", "error_partial"}
RemoteMessages == {"CUDA out of memory", "model file missing"}

RemoteNextRerun(r) ==
    CASE r = "queued"  -> {"running"}
      [] r = "running" -> {"listed"} \cup RemoteTerminal
      [] r = "listed"  -> RemoteTerminal
      [] OTHER         -> RemoteTerminal \ {r}

RemoteNext(r) ==
    CASE r = "queued"  -> {"running"}
      [] r = "running" -> {"listed"} \cup RemoteTerminal
      [] r = "listed"  -> RemoteTerminal
      [] OTHER         -> {}

\* What a history response says about the job.
InHistory(r)    == r \in {"listed"} \cup RemoteTerminal
HasOutputs(r)   == r \in {"success", "error_partial"}
HasStatus(r)    == r \in RemoteTerminal
\* The entry has an 'outputs' key, empty or not: every finished job has.
HasOutputsKey(r) == r \in RemoteTerminal
StatusStr(r)    == CASE r \in {"success", "success_noout"} -> "success"
                     [] r \in RemoteErrors -> "error"
                     [] OTHER -> "none"
Completed(r)    == r \in {"success", "success_noout"}
HasExecError(r) == r \in RemoteErrors
\* The job as a history answer shows it.
HistoryView(r)  == IF InHistory(r) THEN r ELSE "absent"
\* What GET /queue says about the job.
InQueueRunning(r) == r = "running"
InQueuePending(r) == r = "queued"

\* The answers an HTTP request can get: no answer at all, or a status with
\* a body that may fail to parse.
HttpStatuses == {200, 202, 500}
QueryResponses ==
    {[net |-> "conn_error", status |-> 0]}
    \cup {[net |-> "ok", status |-> c] : c \in HttpStatuses}
    \cup {[net |-> "bad_body", status |-> 200]}
PostResponses ==
    {[net |-> "conn_error", status |-> 0, hasId |-> FALSE]}
    \cup {[net |-> "ok", status |-> c, hasId |-> b] :
              c \in HttpStatuses, b \in BOOLEAN}

\* requests.Response.raise_for_status raises for 4xx and 5xx.
RaiseForStatus(c) == c >= 400

(***************************************************************************)
(* Per-script policy, read off each copy of the protocol.                  *)
(***************************************************************************)
max_retries == 2
SubmitRetryDelay == 2

\* The number of POST attempts of a submit: range(CONFIG['max_retries']) in
\* ultra_portrait_gen, a single request everywhere else.
SubmitAttempts(s) == IF s = "ultra" THEN max_retries ELSE 1

\* The scripts that test response.status_code == 200 after the POST; the
\* others call raise_for_status.
PostChecks200(s) ==
    s \in {"ultra", "luxury", "cli", "smoke", "baseline", "ukrainian"}

\* The scripts that index result['prompt_id'] where no handler catches the
\* KeyError.
PostKeyErrorEscapes(s) == s = "ultra"

\* How one POST attempt ends for the script: "handle", "fail", "crash" or
\* "retry" (the attempt failed and the loop has attempts left).
SubmitOutcome(s, resp, att) ==
    LET failed == IF att < SubmitAttempts(s) - 1 THEN "retry" ELSE "fail"
        accepted == IF PostChecks200(s) THEN resp.status = 200
                    ELSE ~RaiseForStatus(resp.status)
    IN  CASE resp.net = "conn_error" -> failed
          [] ~accepted -> failed
          [] resp.hasId -> "handle"
          [] PostKeyErrorEscapes(s) -> "crash"
          [] OTHER -> "fail"

\* The exception behind a failed submit, "none" where the script only
\* tests the status code.
SubmitException(s, resp) ==
    CASE resp.net = "conn_error" -> "RequestException"
      [] ~PostChecks200(s) /\ RaiseForStatus(resp.status) ->
            "RequestException"
      [] PostChecks200(s) /\ resp.status # 200 -> "none"
      [] s = "manager" -> "ComfyUIError"
      [] s \in {"luxury", "cli", "simple_wellness", "wellness_working",
                "ukrainian"} ->
            "KeyError"
      [] OTHER -> "none"

\* while True in the two wellness generators, a deadline everywhere else.
HasTimeout(s) == s \notin {"wellness", "simple_wellness"}

\* time.sleep at the end of an iteration that saw nothing final.
poll_interval(s) ==
    IF s \in {"luxury", "simple_wellness", "wellness_working", "flux_kontext"}
    THEN 3 ELSE 2

\* time.sleep of the exception handler of the loop.
error_sleep(s) ==
    IF s \in {"luxury", "baseline", "flux_kontext", "complex"} THEN 5
    ELSE poll_interval(s)

\* What the try inside the loop catches: "RequestException", "Exception"
\* (also a bare except), or "none" when the loop has no try of its own.
LoopCatches(s) ==
    CASE s \in {"manager", "ultra", "wellness", "ukrainian"} ->
            "RequestException"
      [] s = "cli" -> "none"
      [] OTHER -> "Exception"

\* The scripts that call raise_for_status on the history response; the
\* others test status_code == 200.
PollRaisesForStatus(s) ==
    s \in {"wellness", "simple_wellness", "wellness_working"}

\* What the body of one iteration decides once it has the history entry:
\* "success", "failed" or "continue".  files says whether the output
\* directory holds an image that matches the script's glob (flux_kontext
\* and complex_portrait_generator look there).
Decide(s, r, files) ==
    CASE s \in {"manager", "ultra", "luxury", "cli"} ->
            IF InHistory(r) /\ HasOutputs(r) THEN "success" ELSE "continue"
      [] s \in {"wellness", "simple_wellness"} ->
            IF InHistory(r) THEN "success" ELSE "continue"
      [] s = "wellness_working" ->
            IF ~InHistory(r) THEN "continue"
            ELSE IF StatusStr(r) = "success"
                 THEN (IF HasOutputs(r) THEN "success" ELSE "continue")
                 ELSE IF StatusStr(r) = "error" THEN "failed" ELSE "continue"
      [] s = "baseline" ->
            IF InHistory(r) /\ HasStatus(r)
            THEN (IF StatusStr(r) = "success" THEN "success"
                  ELSE IF StatusStr(r) = "error" THEN "failed" ELSE "continue")
            ELSE "continue"
      [] s = "smoke" ->
            IF ~InHistory(r) THEN "continue"
            ELSE IF Completed(r) THEN "success"
                 ELSE IF HasExecError(r) THEN "failed" ELSE "continue"
      [] s \in {"flux_kontext", "complex"} ->
            IF InHistory(r) /\ HasOutputsKey(r) /\ files THEN "success"
            ELSE "continue"
      [] s = "ukrainian" ->
            IF ~InHistory(r) THEN "continue"
            ELSE IF Completed(r) \/ HasOutputs(r) THEN "success"
                 ELSE IF HasExecError(r) THEN "failed" ELSE "continue"

\* The exception a history request raises in the script, "none" if it
\* raises nothing.  jsonIsReqExc: whether the installed requests library
\* derives its JSONDecodeError from RequestException.
PollException(s, resp, jsonIsReqExc) ==
    CASE resp.net = "conn_error" -> "RequestException"
      [] PollRaisesForStatus(s) /\ RaiseForStatus(resp.status) ->
            "RequestException"
      [] resp.net = "bad_body"
         /\ (PollRaisesForStatus(s) \/ resp.status = 200) ->
            IF jsonIsReqExc THEN "RequestException" ELSE "ValueError"
      [] OTHER -> "none"

\* Whether the loop's own handler takes the exception.
LoopHandles(s, exc) ==
    CASE LoopCatches(s) = "Exception" -> TRUE
      [] LoopCatches(s) = "RequestException" -> exc = "RequestException"
      [] OTHER -> FALSE

\* Whether the body reads the history entry out of the response.
PollReadsEntry(s, resp) ==
    /\ resp.net = "ok"
    /\ IF PollRaisesForStatus(s) THEN ~RaiseForStatus(resp.status)
       ELSE resp.status = 200

\* GET /queue of create_test_baseline: the sleep that follows it.  0 is the
\* "continue" of a job that is neither running nor pending.
QueueResponses == {"conn_error", "ok", "http_error"}
BaselineQueueSleep(qr, r) ==
    CASE qr = "conn_error" -> error_sleep("baseline")
      [] qr = "http_error" -> poll_interval("baseline")
      [] InQueueRunning(r) -> poll_interval("baseline")
      [] ~InQueuePending(r) -> 0
      [] OTHER -> poll_interval("baseline")

\* workflows run sleeps before it asks, the other loops after.
SleepBeforePoll(s) == IF s = "cli" THEN 2 ELSE 0
SleepAfterPoll(s, qr, r) ==
    CASE s = "cli" -> 0
      [] s = "baseline" -> BaselineQueueSleep(qr, r)
      [] OTHER -> poll_interval(s)

\* raise ComfyUITimeoutError(...) at the end of _wait_for_generation
WaitTimeoutRaises == "ComfyUITimeoutError"

\* except Exception as e: raise ComfyUIError(f"Generation failed: {e}") of
\* generate_image
GenerateImageExcept(e) == "ComfyUIError"

\* What the caller of the script's generate function receives.
Delivers(s, res, exc) ==
    CASE s = "manager" ->
            (CASE res = "Succeeded" -> "GenerationResult"
               [] res = "StartFailed" -> exc
               [] OTHER -> GenerateImageExcept(exc))
      [] res = "Crashed" -> exc
      [] s = "cli" -> "None"
      [] res = "Succeeded" -> "True"
      [] res = "SubmitFailed" -> "None"
      [] OTHER -> "False"

startup_timeout == 30
\* self.process = None
NoProcess == 0
\* A file that does not exist, a workflow that was not loaded.
NoFile == <<>>
KillSleep == 2

(***************************************************************************)
(* Output artifacts.  An artifact is named by the job that produced it:    *)
(* "own" is an image of the job that is waited for, "other" an image of    *)
(* any other job that wrote to the same output directory.                  *)
(***************************************************************************)
\* The artifacts the history entry of the job lists under its outputs.
Listed(r) == IF HasOutputs(r) THEN {"own"} ELSE {}

\* What the output directory can hold: the job's own image only if the job
\* produced one, images of other jobs at any time.
OutputDirs(r) == {d \in SUBSET {"own", "other"} : "own" \in d => HasOutputs(r)}

\* The directory contents that matter to a script: the two generators that
\* glob the directory and the manager, which tests image_path.exists().
DirsOf(s, r) ==
    IF s \in {"flux_kontext", "complex", "manager"} THEN OutputDirs(r)
    ELSE {Listed(r)}

\* The artifacts a successful wait reports.  dir is the content of the
\* output directory, latest its most recent file, n the number of images
\* asked for.
Reported(s, r, dir, latest, n) ==
    CASE s = "flux_kontext" ->
            IF n >= Cardinality(dir) THEN dir ELSE {latest}
      [] s = "complex" -> {latest}
      [] s = "manager" -> Listed(r) \cap dir
      [] s \in {"luxury", "ultra", "ukrainian"} -> Listed(r)
      [] OTHER -> {}

(***************************************************************************)
(* Task lists.  luxury_ai_pipeline.run_pipeline and                        *)
(* ultra_portrait_gen.generate_portraits run their list of tasks either    *)
(* one after the other or, with --batch, submit them all and wait for them *)
(* afterwards; ComfyUIManager.batch_generate calls generate_image for one  *)
(* settings object after the other.  The variables of the request describe *)
(* the task the script is working on; saved keeps what the script left of  *)
(* the other tasks.  The clock is read from the moment the script turned   *)
(* to the task: the code only ever uses differences of time.time().        *)
(***************************************************************************)
ModesOf(s) ==
    CASE s \in {"luxury", "ultra"} -> {"single", "sequential", "batch"}
      [] s = "manager" -> {"single", "sequential"}
      [] OTHER -> {"single"}

NJobs(m) == IF m = "single" THEN 1 ELSE MaxJobs

\* The prompt_id the service gives to the k-th task.
HandleOf(k) == "p" \o ToString(k)

\* The settings of the k-th task of a list: every task has a seed of its
\* own (hash(concept + str(var)) in the pipelines).
TaskSettings(e, k) == [e EXCEPT !.seed = e.seed + (k - 1)]

\* A task nothing has been done for yet.
FreshJob ==
    [workflow |-> NoGraph, validated |-> NoGraph, submitted |-> FALSE,
     prompt_id |-> NoHandle, polled |-> FALSE, remote |-> "queued",
     remoteMsg |-> NoMsg, result |-> "none"]

\* Where the script goes when a task is over with res.  An exception
\* that nothing catches, and a failed service check, end the whole run of a
\* pipeline; batch_generate catches every exception of generate_image and
\* continues with the next settings.
AfterJob(m, res) ==
    IF m = "single" \/ res \in {"Crashed", "ServiceDown"} THEN "done"
    ELSE "next"

AfterSubmitPending(m) == "next"

\* Where the script goes with the prompt_id of an accepted POST: --batch
\* appends it to the pending list, the other modes wait for it at once.
AfterSubmit(m) == IF m = "batch" THEN "next" ELSE "wait"

\* The task the script turns to after task j, 0 when there is none: the
\* next of the list while tasks are started, the next pending one (a task
\* whose submit returned a prompt_id) while the waits run.
NextTask(m, aw, j, sv) ==
    IF m = "sequential" \/ (~aw /\ j < NJobs(m))
    THEN IF j < NJobs(m) THEN j + 1 ELSE 0
    ELSE LET from    == IF aw THEN j + 1 ELSE 1
             pending == {k \in from..NJobs(m) : sv[k].prompt_id # NoHandle}
         IN  IF pending = {} THEN 0
             ELSE CHOOSE k \in pending : \A o \in pending : k <= o

(***************************************************************************)
(* The state machine.                                                      *)
(***************************************************************************)
\* No second caller yet.
CallerInit ==
    /\ pc2 = "idle"
    /\ now2 = 0
    /\ start_time2 = 0
    /\ result2 = "none"
    /\ lastSeen2 = "none"

\* ComfyUIManager.__init__: no process; nothing was spawned.
ManagerInit ==
    /\ process = NoProcess
    /\ spawned = 0
    /\ live = {}

\* No with-block was entered and no CLI command was given.
CliInit ==
    /\ inContext = FALSE
    /\ lastCli = "none"
    /\ cliStarted = NoProcess
    /\ lastCall = "none"

\* No loop over a list of jobs runs.
RoundsIdle ==
    /\ runner = "none"
    /\ roundLog = <<>>
    /\ rpc = "idle"
    /\ total_generated = 0
    /\ returned = "none"

\* The converter is not in use.
ConvertIdle ==
    /\ file = NoFile
    /\ original = NoFile
    /\ backup = NoFile
    /\ runs = <<>>
    /\ data = NoFile
    /\ dataLog = <<>>

AuxInit == CallerInit /\ ManagerInit /\ CliInit /\ RoundsIdle /\ ConvertIdle

\* What start_server does to the manager and to the processes of the
\* machine once it is past its "if self.is_running: return".  validate_cuda
\* and validate_models raise before anything is spawned.  Otherwise Popen
\* creates a process ("python main.py" in the ComfyUI directory) and
\* self.process holds it; is_running is set only when _wait_for_server
\* returns.  When _wait_for_server raises ComfyUITimeoutError the except
\* clause raises ComfyUIError and nothing terminates the process.
\* _kill_existing_processes (pkill -f "ComfyUI/main.py") does not match the
\* command line of the processes start_server creates.
ServerStart(outcome) ==
    IF outcome \in {"ready", "timeout"}
    THEN /\ spawned' = spawned + 1
         /\ process' = spawned + 1
         /\ live' = live \cup {spawned + 1}
         /\ is_running' = IF outcome = "ready" THEN TRUE ELSE is_running
    ELSE UNCHANGED <<is_running, process, spawned, live>>

Init ==
    /\ script \in Scripts
    /\ mode = "single"
    /\ requested \in SettingsOf(script)
    /\ job = 1
    /\ saved = [k \in 1..NJobs(mode) |-> FreshJob]
    /\ awaiting = FALSE
    /\ lastSleep = 0
    /\ AuxInit
    /\ effective = requested
    /\ templateFile \in TemplatesOf(script)
    /\ template = templateFile
    /\ workflow = NoGraph
    /\ pc = "main"
    /\ now = 0
    /\ start_time = 0
    /\ attempt = 0
    /\ posts = 0
    /\ postLog = <<>>
    /\ polled = FALSE
    /\ healthChecked = FALSE
    /\ is_running = FALSE
    /\ prompt_id = NoHandle
    /\ remote = "queued"
    /\ remoteMsg = NoMsg
    /\ result = "none"
    /\ delivered = "none"
    /\ deliveredMsg = NoMsg
    /\ raised = "none"
    /\ endedAt = 0
    /\ lastSeen = "none"
    /\ validated = NoGraph
    /\ reported = {}

\* The request is over: res is how it ended, exc the exception (or "none"),
\* msg the remote error text and rep the artifacts that are reported.
Ends(res, exc, msg, rep) ==
    /\ result' = res
    /\ delivered' = Delivers(script, res, exc)
    /\ deliveredMsg' = msg
    /\ raised' = exc
    /\ reported' = rep
    /\ pc' = AfterJob(mode, res)

Finish(res, exc, msg) == Ends(res, exc, msg, {})

\* main(): the numeric parameters are read, and clamped or checked where
\* the script does that.  FluxKontextGenerator.generate_images is also
\* entered directly, by a caller that holds the generator object; that way
\* in passes none of main()'s checks.
Main ==
    /\ pc = "main"
    /\ \E direct \in (IF script = "flux_kontext" THEN BOOLEAN ELSE {FALSE}) :
          LET out == IF direct THEN [end |-> "none", eff |-> requested]
                     ELSE MainOutcome(script, requested)
          IN  IF out.end = "none"
              THEN /\ effective' = out.eff
                   /\ pc' = IF script \in {"flux_kontext", "complex",
                                            "ukrainian"}
                            THEN "build" ELSE "services"
                   /\ UNCHANGED outVars
              ELSE /\ Finish(out.end,
                             IF out.end = "Crashed" THEN "ArgumentError"
                             ELSE "none", NoMsg)
                   /\ UNCHANGED effective
    /\ UNCHANGED <<inputVars, template, workflow, validated, submitVars,
                   waitVars, remoteVars, now, healthChecked, is_running,
                   taskVars, auxVars>>

\* check_services / check_comfyui_running / check_comfyui_status: one
\* GET /system_stats before anything else.
CheckServices ==
    /\ pc = "services"
    /\ script # "manager"
    /\ healthChecked' = TRUE
    /\ \E up \in BOOLEAN :
          IF up THEN pc' = "build" /\ UNCHANGED outVars
          ELSE Finish("ServiceDown", "none", NoMsg)
    /\ UNCHANGED <<inputVars, buildVars, submitVars, waitVars, remoteVars,
                   now, is_running,
                   taskVars, auxVars>>

\* generate_image: if not self.is_running: self.start_server()
StartServer ==
    /\ pc = "services"
    /\ script = "manager"
    /\ ~is_running
    /\ \E outcome \in {"cuda", "models", "ready", "timeout"} :
          /\ ServerStart(outcome)
          /\ CASE outcome = "cuda" ->
                  /\ Finish("StartFailed", "CUDAError", NoMsg)
                  /\ UNCHANGED <<now, healthChecked>>
            [] outcome = "models" ->
                  /\ Finish("StartFailed", "ComfyUIError", NoMsg)
                  /\ UNCHANGED <<now, healthChecked>>
            [] outcome = "timeout" ->
                  /\ Finish("StartFailed", "ComfyUIError", NoMsg)
                  /\ now' = now + KillSleep + startup_timeout
                  /\ healthChecked' = TRUE
            [] outcome = "ready" ->
                  /\ pc' = "build"
                  /\ now' = now + KillSleep
                  /\ healthChecked' = TRUE
                  /\ UNCHANGED outVars
    /\ UNCHANGED <<inputVars, buildVars, submitVars, waitVars, remoteVars,
                   taskVars, callerVars, cliVars, roundVars, convertVars>>

\* The template is loaded and the settings are written into it.  The two
\* pipelines work on template.copy(), which shares the nodes' dicts with
\* the template, so what they write shows in the template as well.
\* generate_image applies validate_workflow to the file as loaded and
\* writes the settings afterwards; luxury_ai_pipeline indexes its nodes
\* unguarded and ends in a KeyError when one is missing.
Build ==
    /\ pc = "build"
    /\ validated' = IF script = "manager" THEN template ELSE validated
    /\ CASE script = "manager" /\ ~ValidateWorkflow(template) ->
               /\ Finish("Invalid", "ComfyUIError", NoMsg)
               /\ UNCHANGED <<template, workflow>>
         [] script = "luxury" /\ LuxuryKeyError(template) ->
               /\ template' = LuxuryCustomize(
                                  template, TaskSettings(effective, job).seed)
               /\ Finish("Crashed", "KeyError", NoMsg)
               /\ UNCHANGED workflow
         [] OTHER ->
               /\ \E rnd \in RandomSeedsOf(script) :
                     workflow' = BuildWorkflow(
                                    script, template,
                                    TaskSettings(effective, job), rnd)
               /\ template' = IF script \in {"ultra", "luxury"}
                              THEN workflow' ELSE template
               /\ pc' = "post"
               /\ UNCHANGED outVars
    /\ UNCHANGED <<inputVars, effective, submitVars, waitVars, remoteVars,
                   now, healthChecked, is_running,
                   taskVars, auxVars>>

\* One POST /prompt, with what the script makes of the answer.
Post ==
    /\ pc = "post"
    /\ \E resp \in PostResponses, q \in 0..MaxQueryTime :
          LET out == SubmitOutcome(script, resp, attempt)
          IN  /\ posts' = posts + 1
              /\ postLog' = Append(postLog, [at |-> now, answer |-> resp])
              /\ CASE out = "handle" ->
                        /\ prompt_id' = HandleOf(job)
                        /\ pc' = AfterSubmit(mode)
                        /\ now' = now + q
                        /\ start_time' = now + q
                        /\ UNCHANGED <<attempt, outVars>>
                   [] out = "retry" ->
                        /\ attempt' = attempt + 1
                        /\ now' = now + q + SubmitRetryDelay
                        /\ UNCHANGED <<prompt_id, pc, start_time, outVars>>
                   [] out = "crash" ->
                        /\ Finish("Crashed", "KeyError", NoMsg)
                        /\ now' = now + q
                        /\ UNCHANGED <<prompt_id, attempt, start_time>>
                   [] OTHER ->
                        /\ Finish("SubmitFailed",
                                  SubmitException(script, resp), NoMsg)
                        /\ now' = now + q
                        /\ UNCHANGED <<prompt_id, attempt, start_time>>
    /\ UNCHANGED <<inputVars, buildVars, remoteVars, polled, endedAt,
                   lastSeen, lastSleep, healthChecked, is_running,
                   taskVars, auxVars>>

WaitTimeoutEarly ==
    /\ pc = "wait"
    /\ HasTimeout(script)
    /\ Finish("TimedOut",
              IF script = "manager" THEN WaitTimeoutRaises ELSE "none", NoMsg)
    /\ endedAt' = now - start_time
    /\ UNCHANGED <<inputVars, buildVars, submitVars, remoteVars, now,
                   start_time, polled, lastSeen, lastSleep, healthChecked,
                   is_running,
                   taskVars, auxVars>>

\* The loop condition is false: the wait gives up.
WaitTimeout ==
    /\ pc = "wait"
    /\ HasTimeout(script)
    /\ ~(now - start_time < Deadline)
    /\ Finish("TimedOut",
              IF script = "manager" THEN WaitTimeoutRaises ELSE "none", NoMsg)
    /\ endedAt' = now - start_time
    /\ UNCHANGED <<inputVars, buildVars, submitVars, remoteVars, now,
                   start_time, polled, lastSeen, lastSleep, healthChecked,
                   is_running,
                   taskVars, auxVars>>

\* One iteration of the wait loop: the history request, the decision, and
\* the sleep that ends the iteration.
WaitIteration ==
    /\ pc = "wait"
    /\ HasTimeout(script) => now - start_time < Deadline
    /\ now < MaxClock
    /\ polled' = TRUE
    /\ \E resp \in QueryResponses, q \in 0..MaxQueryTime :
       \E jsonIsReqExc \in (IF resp.net = "bad_body" THEN BOOLEAN
                            ELSE {TRUE}),
          dir \in DirsOf(script, remote),
          qr \in (IF script = "baseline" THEN QueueResponses ELSE {"ok"}) :
       \E latest \in (IF dir = {} THEN {"own"} ELSE dir) :
          LET exc  == PollException(script, resp, jsonIsReqExc)
              at   == now + SleepBeforePoll(script) + q
              d    == IF PollReadsEntry(script, resp)
                      THEN Decide(script, remote, dir # {}) ELSE "continue"
              rep  == Reported(script, remote, dir, latest, effective.count)
              ends(res, e, msg) ==
                  /\ Ends(res, e, msg, IF res = "Succeeded" THEN rep ELSE {})
                  /\ now' = at
                  /\ endedAt' = at - start_time
                  /\ UNCHANGED lastSleep
          IN  /\ lastSeen' = IF exc = "none" /\ PollReadsEntry(script, resp)
                              THEN HistoryView(remote) ELSE lastSeen
              /\ CASE exc # "none" /\ LoopHandles(script, exc) ->
                         /\ now' = at + error_sleep(script)
                         /\ lastSleep' = error_sleep(script)
                         /\ UNCHANGED <<pc, outVars, endedAt>>
                   [] exc # "none" /\ ~LoopHandles(script, exc) ->
                         IF script \in {"manager", "cli"}
                         THEN ends("Aborted", exc, NoMsg)
                         ELSE ends("Crashed", exc, NoMsg)
                   [] d = "success" -> ends("Succeeded", "none", NoMsg)
                   [] d = "failed"  -> ends("Failed", "none", remoteMsg)
                   [] OTHER ->
                         /\ now' = at + SleepAfterPoll(script, qr, remote)
                         /\ lastSleep' = SleepAfterPoll(script, qr, remote)
                         /\ UNCHANGED <<pc, outVars, endedAt>>
    /\ UNCHANGED <<inputVars, buildVars, submitVars, remoteVars, start_time,
                   healthChecked, is_running,
                   taskVars, auxVars>>

\* The remote service moves the job on.
RemoteStep ==
    /\ prompt_id # NoHandle
    /\ result = "none"
    /\ \E r \in RemoteNext(remote) :
          /\ remote' = r
          /\ IF r \in RemoteErrors
             THEN \E m \in RemoteMessages : remoteMsg' = m
             ELSE UNCHANGED remoteMsg
    /\ UNCHANGED <<inputVars, buildVars, submitVars, waitVars, outVars, pc,
                   now, healthChecked, is_running,
                   taskVars, auxVars>>

\* What is kept of the task the script is working on when it turns to
\* another one.  The service's record of the job is followed only while a
\* wait for the job is still to come.
Parked ==
    [workflow |-> workflow, validated |-> validated, submitted |-> posts > 0,
     prompt_id |-> prompt_id, polled |-> polled, result |-> result,
     remote |-> IF result = "none" THEN remote ELSE "unwatched",
     remoteMsg |-> IF result = "none" THEN remoteMsg ELSE NoMsg]

\* The loop of the pipeline goes on to its next task, or to the wait for
\* the next pending task, or the run is over.
NextJob ==
    /\ pc = "next"
    /\ LET sv  == [saved EXCEPT ![job] = Parked]
           nxt == NextTask(mode, awaiting, job, sv)
           aw  == mode = "batch" /\ (awaiting \/ job = NJobs(mode))
       IN  /\ saved' = sv
           /\ awaiting' = aw
           /\ IF nxt = 0
              THEN /\ pc' = "done"
                   /\ UNCHANGED <<job, workflow, validated, submitVars,
                                  waitVars, remoteVars, outVars, now>>
              ELSE /\ job' = nxt
                   /\ pc' = IF aw THEN "wait"
                            ELSE IF script = "manager" /\ ~is_running
                                 THEN "services" ELSE "build"
                   /\ now' = 0
                   /\ start_time' = 0
                   /\ workflow' = sv[nxt].workflow
                   /\ validated' = sv[nxt].validated
                   /\ posts' = 0
                   /\ prompt_id' = sv[nxt].prompt_id
                   /\ polled' = sv[nxt].polled
                   /\ remote' = sv[nxt].remote
                   /\ remoteMsg' = sv[nxt].remoteMsg
                   /\ result' = sv[nxt].result
                   /\ attempt' = 0
                   /\ postLog' = <<>>
                   /\ endedAt' = 0
                   /\ lastSeen' = "none"
                   /\ lastSleep' = 0
                   /\ delivered' = "none"
                   /\ deliveredMsg' = NoMsg
                   /\ raised' = "none"
                   /\ reported' = {}
    /\ UNCHANGED <<inputVars, effective, template, healthChecked,
                   is_running, auxVars>>

\* The remote service moves on a job the script is not waiting for at the
\* moment.
RemoteStepOther ==
    /\ \E k \in DOMAIN saved \ {job} :
          /\ saved[k].prompt_id # NoHandle
          /\ saved[k].result = "none"
          /\ \E r \in RemoteNext(saved[k].remote) :
             \E m \in (IF r \in RemoteErrors THEN RemoteMessages
                       ELSE {saved[k].remoteMsg}) :
                saved' = [saved EXCEPT ![k].remote = r, ![k].remoteMsg = m]
    /\ UNCHANGED <<inputVars, buildVars, submitVars, waitVars, remoteVars,
                   outVars, pc, now, healthChecked, is_running, job,
                   awaiting, auxVars>>

Next ==
    \/ Main
    \/ CheckServices
    \/ StartServer
    \/ Build
    \/ Post
    \/ WaitTimeout
    \/ WaitIteration
    \/ RemoteStep

Spec == Init /\ [][Next]_vars

\* A pipeline run in mode m over a list of MaxJobs tasks, from the state
\* Init gives to a single request: the settings of the concrete scenario
\* and the template as it is shipped.
PipelineRequestInit(m) ==
    /\ script \in {s \in Scripts : m \in ModesOf(s)}
    /\ mode = m
    /\ requested = BaseSettings
    /\ effective = requested
    /\ templateFile = TemplateOf(script)
    /\ template = templateFile
    /\ workflow = NoGraph
    /\ pc = "main"
    /\ now = 0
    /\ start_time = 0
    /\ attempt = 0
    /\ posts = 0
    /\ postLog = <<>>
    /\ polled = FALSE
    /\ healthChecked = FALSE
    /\ is_running = FALSE
    /\ prompt_id = NoHandle
    /\ remote = "queued"
    /\ remoteMsg = NoMsg
    /\ result = "none"
    /\ delivered = "none"
    /\ deliveredMsg = NoMsg
    /\ raised = "none"
    /\ endedAt = 0
    /\ lastSeen = "none"
    /\ validated = NoGraph
    /\ reported = {}
    /\ job = 1
    /\ saved = [k \in 1..NJobs(mode) |-> FreshJob]
    /\ awaiting = FALSE
    /\ lastSleep = 0

PipelineInit(m) ==
    /\ PipelineRequestInit(m)
    /\ AuxInit

\* The runs that take one task after the other.
SequentialInit == PipelineInit("sequential")

SequentialNext ==
    \/ Main
    \/ CheckServices
    \/ StartServer
    \/ Build
    \/ Post
    \/ WaitTimeout
    \/ WaitIteration
    \/ RemoteStep
    \/ NextJob

SequentialSpec == SequentialInit /\ [][SequentialNext]_vars

\* The runs with --batch: every task is submitted, then the waits run.
BatchInit == PipelineInit("batch")

BatchNext ==
    \/ Main
    \/ CheckServices
    \/ Build
    \/ Post
    \/ WaitTimeout
    \/ WaitIteration
    \/ RemoteStep
    \/ NextJob
    \/ RemoteStepOther

BatchSpec == BatchInit /\ [][BatchNext]_vars

(***************************************************************************)
(* Two callers.  A second thread calls _wait_for_generation (or            *)
(* wait_for_completion) with the prompt_id the first caller waits for.     *)
(* Each caller has its own clock, which stands at the time of its next     *)
(* history request; the caller whose request comes first in time goes      *)
(* first.                                                                  *)
(***************************************************************************)
requestVars == <<inputVars, buildVars, submitVars, waitVars, remoteVars,
                 outVars, taskVars, pc, now, healthChecked, is_running>>

\* The second caller enters its wait loop, before the first caller has
\* made its first history request.
SecondCallerStart ==
    /\ pc = "wait"
    /\ ~polled
    /\ pc2 = "idle"
    /\ pc2' = "wait"
    /\ now2' = now
    /\ start_time2' = now
    /\ UNCHANGED <<requestVars, restVars, result2, lastSeen2>>

\* One iteration of the second caller's loop.
SecondCallerIteration ==
    /\ pc2 = "wait"
    /\ pc = "wait" => now2 <= now
    /\ now2 - start_time2 < Deadline
    /\ now2 < MaxClock
    /\ \E resp \in QueryResponses, q \in 0..MaxQueryTime :
       \E jsonIsReqExc \in (IF resp.net = "bad_body" THEN BOOLEAN
                            ELSE {TRUE}),
          dir \in DirsOf(script, remote) :
          LET exc == PollException(script, resp, jsonIsReqExc)
              at  == now2 + q
              d   == IF PollReadsEntry(script, resp)
                     THEN Decide(script, remote, dir # {}) ELSE "continue"
              ends(res) == result2' = res /\ pc2' = "done" /\ now2' = at
          IN  /\ lastSeen2' = IF exc = "none" /\ PollReadsEntry(script, resp)
                               THEN HistoryView(remote) ELSE lastSeen2
              /\ CASE exc # "none" /\ LoopHandles(script, exc) ->
                         /\ now2' = at + error_sleep(script)
                         /\ UNCHANGED <<pc2, result2>>
                   [] exc # "none" /\ ~LoopHandles(script, exc) ->
                         IF script \in {"manager", "cli"}
                         THEN ends("Aborted") ELSE ends("Crashed")
                   [] d = "success" -> ends("Succeeded")
                   [] d = "failed"  -> ends("Failed")
                   [] OTHER ->
                         /\ now2' = at + poll_interval(script)
                         /\ UNCHANGED <<pc2, result2>>
    /\ UNCHANGED <<requestVars, restVars, start_time2>>

\* The second caller's loop condition is false.
SecondCallerTimeout ==
    /\ pc2 = "wait"
    /\ ~(now2 - start_time2 < Deadline)
    /\ result2' = "TimedOut"
    /\ pc2' = "done"
    /\ UNCHANGED <<requestVars, restVars, now2, start_time2, lastSeen2>>

\* The first caller's iteration, when its request is the next in time.
FirstCallerIteration ==
    /\ pc2 = "wait" => now <= now2
    /\ WaitIteration

\* The remote service moves the job on while only the second caller waits.
RemoteStepSecond ==
    /\ result # "none"
    /\ pc2 = "wait"
    /\ \E r \in RemoteNext(remote) :
          /\ remote' = r
          /\ IF r \in RemoteErrors
             THEN \E m \in RemoteMessages : remoteMsg' = m
             ELSE UNCHANGED remoteMsg
    /\ UNCHANGED <<inputVars, buildVars, submitVars, waitVars, outVars,
                   taskVars, pc, now, healthChecked, is_running, callerVars,
                   restVars>>

\* The first caller has built the graph of the concrete scenario, its POST
\* was answered with a prompt_id, and it enters its wait loop.
TwoCallersInit ==
    /\ script \in {"manager", "ultra"}
    /\ mode = "single"
    /\ requested = BaseSettings
    /\ effective = requested
    /\ templateFile = TemplateOf(script)
    /\ workflow = BuildWorkflow(script, templateFile, effective, 0)
    /\ template = IF script = "ultra" THEN workflow ELSE templateFile
    /\ validated = IF script = "manager" THEN templateFile ELSE NoGraph
    /\ pc = "wait"
    /\ now = 0
    /\ start_time = 0
    /\ attempt = 0
    /\ posts = 1
    /\ postLog = <<[at |-> 0,
                     answer |-> [net |-> "ok", status |-> 200,
                                 hasId |-> TRUE]]>>
    /\ polled = FALSE
    /\ healthChecked = TRUE
    /\ is_running = (script = "manager")
    /\ prompt_id = HandleOf(1)
    /\ remote = "queued"
    /\ remoteMsg = NoMsg
    /\ result = "none"
    /\ delivered = "none"
    /\ deliveredMsg = NoMsg
    /\ raised = "none"
    /\ endedAt = 0
    /\ lastSeen = "none"
    /\ reported = {}
    /\ job = 1
    /\ saved = [k \in 1..NJobs(mode) |-> FreshJob]
    /\ awaiting = FALSE
    /\ lastSleep = 0
    /\ CallerInit
    /\ CliInit
    /\ RoundsIdle
    /\ ConvertIdle
    /\ spawned = (IF script = "manager" THEN 1 ELSE 0)
    /\ process = spawned
    /\ live = 1..spawned

TwoCallersNext ==
    \/ WaitTimeout
    \/ FirstCallerIteration
    \/ RemoteStep
    \/ SecondCallerStart
    \/ SecondCallerIteration
    \/ SecondCallerTimeout
    \/ RemoteStepSecond

TwoCallersSpec == TwoCallersInit /\ [][TwoCallersNext]_vars

(***************************************************************************)
(* The life cycle of the server process.  One ComfyUIManager object is     *)
(* driven through its public methods while no request is under way; the    *)
(* "server" commands of the CLI each work on a ComfyUIManager of their     *)
(* own, which is gone when the command returns.                            *)
(***************************************************************************)
\* How many server processes the model lets be spawned.
MaxSpawns == 4

ManagerIdle == script = "manager" /\ pc = "main"

StartOutcomes == {"cuda", "models", "ready", "timeout"}

\* What stop_server does.  "if not self.is_running: return" comes first;
\* otherwise self.process is terminated (killed if it does not end within
\* 10 seconds), and is_running and process are cleared.
ServerStop ==
    IF ~is_running
    THEN UNCHANGED <<is_running, process, live>>
    ELSE /\ live' = live \ {process}
         /\ is_running' = FALSE
         /\ process' = NoProcess

\* What start_server does when it runs to its end with the given outcome.
ServerStartCall(outcome) ==
    IF is_running
    THEN UNCHANGED <<is_running, process, spawned, live>>
    ELSE ServerStart(outcome)

\* manager.start_server()
start_server ==
    /\ ManagerIdle
    /\ lastCall' = "start_server"
    /\ spawned < MaxSpawns
    /\ \E outcome \in StartOutcomes : ServerStartCall(outcome)
    /\ UNCHANGED <<inputVars, buildVars, submitVars, waitVars, remoteVars,
                   outVars, taskVars, pc, now, healthChecked, callerVars,
                   roundVars, convertVars,
                   inContext, lastCli, cliStarted>>

\* manager.stop_server()
stop_server ==
    /\ ManagerIdle
    /\ lastCall' = "stop_server"
    /\ ServerStop
    /\ UNCHANGED <<inputVars, buildVars, submitVars, waitVars, remoteVars,
                   outVars, taskVars, pc, now, healthChecked, callerVars,
                   roundVars, convertVars,
                   spawned, inContext, lastCli, cliStarted>>

\* manager.generate_image(settings), as far as the server process goes:
\* "if not self.is_running: self.start_server()"; nothing after that
\* touches is_running or process.
generate_image ==
    /\ ManagerIdle
    /\ lastCall' = "generate_image"
    /\ spawned < MaxSpawns
    /\ \E outcome \in StartOutcomes : ServerStartCall(outcome)
    /\ UNCHANGED <<inputVars, buildVars, submitVars, waitVars, remoteVars,
                   outVars, taskVars, pc, now, healthChecked, callerVars,
                   roundVars, convertVars,
                   inContext, lastCli, cliStarted>>

\* "with manager:" is entered: __enter__ calls start_server.  When it
\* raises, the body does not run and __exit__ is not called.
ContextEnter ==
    /\ ManagerIdle
    /\ lastCall' = "__enter__"
    /\ ~inContext
    /\ spawned < MaxSpawns
    /\ \E outcome \in StartOutcomes :
          /\ ServerStartCall(outcome)
          /\ inContext' = (is_running \/ outcome = "ready")
    /\ UNCHANGED <<inputVars, buildVars, submitVars, waitVars, remoteVars,
                   outVars, taskVars, pc, now, healthChecked, callerVars,
                   roundVars, convertVars,
                   lastCli, cliStarted>>

\* The with-block is left: __exit__ calls stop_server.
ContextExit ==
    /\ ManagerIdle
    /\ lastCall' = "__exit__"
    /\ inContext
    /\ ServerStop
    /\ inContext' = FALSE
    /\ UNCHANGED <<inputVars, buildVars, submitVars, waitVars, remoteVars,
                   outVars, taskVars, pc, now, healthChecked, callerVars,
                   roundVars, convertVars,
                   spawned, lastCli, cliStarted>>

\* A server process ends by itself.
ServerExits ==
    /\ ManagerIdle
    /\ \E p \in live : live' = live \ {p}
    /\ UNCHANGED <<requestVars, callerVars, roundVars, convertVars, process,
                   spawned, cliVars>>

\* handle_server, "start": manager = ComfyUIManager(); manager.start_server().
\* Exit code 0 unless start_server raised.
HandleServerStart ==
    /\ ManagerIdle
    /\ lastCall' = "start_server"
    /\ ~inContext
    /\ spawned < MaxSpawns
    /\ \E outcome \in StartOutcomes :
          /\ spawned' = (IF outcome \in {"ready", "timeout"}
                         THEN spawned + 1 ELSE spawned)
          /\ live' = (IF outcome \in {"ready", "timeout"}
                      THEN live \cup {spawned + 1} ELSE live)
          /\ process' = (IF outcome \in {"ready", "timeout"}
                         THEN spawned + 1 ELSE NoProcess)
          /\ is_running' = (outcome = "ready")
          /\ lastCli' = (IF outcome = "ready" THEN "start0" ELSE "start1")
          /\ cliStarted' = (IF outcome = "ready" THEN spawned + 1
                            ELSE cliStarted)
    /\ UNCHANGED <<inputVars, buildVars, submitVars, waitVars, remoteVars,
                   outVars, taskVars, pc, now, healthChecked, callerVars,
                   roundVars, convertVars,
                   inContext>>

\* handle_server, "stop": manager = ComfyUIManager(); manager.stop_server().
\* The new manager has is_running = False, so stop_server returns at once;
\* exit code 0.
HandleServerStop ==
    /\ ManagerIdle
    /\ lastCall' = "stop_server"
    /\ ~inContext
    /\ is_running' = FALSE
    /\ process' = NoProcess
    /\ lastCli' = "stop0"
    /\ UNCHANGED <<inputVars, buildVars, submitVars, waitVars, remoteVars,
                   outVars, taskVars, pc, now, healthChecked, callerVars,
                   roundVars, convertVars,
                   spawned, live, inContext, cliStarted>>

ServerInit ==
    /\ PipelineInit("single")
    /\ script = "manager"

ServerNext ==
    \/ start_server
    \/ stop_server
    \/ generate_image
    \/ ContextEnter
    \/ ContextExit
    \/ ServerExits
    \/ HandleServerStart
    \/ HandleServerStop

ServerSpec == ServerInit /\ [][ServerNext]_vars

(***************************************************************************)
(* Runs over a list of jobs.  Each of these functions takes its jobs one   *)
(* after the other, counts the ones that succeeded and returns a verdict   *)
(* on the run.  A job is followed here only as far as the loop looks at    *)
(* it: by what its submit and its wait gave back.                          *)
(***************************************************************************)
\* How many jobs a run has.
MaxRounds == 3

\* batch_generate, run_pipeline, generate_portraits, run_base_generation,
\* generate_hires_batch and generate_wellness_poses.
Runners == {"manager", "luxury", "ultra", "flower", "hires", "wellness_poses"}

\* How a job can go: it completes with outputs; the POST is refused or
\* fails; the POST is answered 200 without a prompt_id; the execution fails
\* at the service, which lists the job without outputs; the job never
\* shows in the history.
JobOutcomes == {"completed", "rejected", "no_id", "failed", "never_listed"}

\* What the loop body of runner s makes of a job that went as o: whether
\* it counts the job as a success, and how the loop goes on.
\*   batch_generate: any exception of generate_image is caught, "continue".
\*   run_pipeline (sequential): submit_generation and wait_for_generation
\*     catch Exception; a job counts when the wait returned True.
\*   generate_portraits (sequential): submit_generation reads
\*     result['prompt_id'] under "except requests.RequestException", so the
\*     KeyError of an answer without prompt_id ends the run.
\*   run_base_generation, generate_hires_batch: "else: ... break".
\*   generate_wellness_poses: "continue" when the queueing failed;
\*     wait_for_completion returns True as soon as the job is listed and
\*     has no deadline.
RoundEffect(s, o) ==
    CASE s \in {"manager", "luxury"} ->
            [counted |-> o = "completed", then |-> "next"]
      [] s = "ultra" ->
            [counted |-> o = "completed",
             then |-> IF o = "no_id" THEN "raise" ELSE "next"]
      [] s \in {"flower", "hires"} ->
            [counted |-> o = "completed",
             then |-> IF o = "completed" THEN "next" ELSE "break"]
      [] s = "wellness_poses" ->
            [counted |-> o \in {"completed", "failed"},
             then |-> IF o = "never_listed" THEN "hang" ELSE "next"]

\* What the run returns after its loop: batch_generate the list of
\* results, generate_wellness_poses True, the others "successful > 0" or
\* "total_generated > 0".
ReturnOf(s, total) ==
    CASE s = "manager" -> "results"
      [] s = "wellness_poses" -> "True"
      [] OTHER -> IF total > 0 THEN "True" ELSE "False"

\* One pass of the loop body; after the last job, or after a break, the
\* function runs on to its return statement.
RunRound ==
    /\ rpc = "loop"
    /\ Len(roundLog) < MaxRounds
    /\ \E o \in JobOutcomes :
          LET e == RoundEffect(runner, o)
              total == total_generated + (IF e.counted THEN 1 ELSE 0)
              last == Len(roundLog) + 1 = MaxRounds
          IN  /\ roundLog' = Append(roundLog, o)
              /\ total_generated' = total
              /\ rpc' = CASE e.then = "raise" -> "raised"
                          [] e.then = "hang" -> "hung"
                          [] e.then = "break" \/ last -> "done"
                          [] OTHER -> "loop"
              /\ returned' = CASE e.then = "raise" -> "raised"
                               [] e.then = "hang" -> "none"
                               [] e.then = "break" \/ last ->
                                      ReturnOf(runner, total)
                               [] OTHER -> "none"
    /\ UNCHANGED <<requestVars, callerVars, managerVars, cliVars,
                   convertVars, runner>>

\* The run is started.
RunStart ==
    /\ rpc = "idle"
    /\ \E s \in Runners : runner' = s
    /\ rpc' = "loop"
    /\ UNCHANGED <<requestVars, callerVars, managerVars, cliVars,
                   convertVars, roundLog,
                   total_generated, returned>>

RoundsInit ==
    /\ PipelineInit("single")
    /\ script = "manager"

RoundsNext == RunStart \/ RunRound

RoundsSpec == RoundsInit /\ [][RoundsNext]_vars

(***************************************************************************)
(* scripts/convert_workflows_to_fp8.py.  A workflow is a dict of nodes;    *)
(* of a node the model keeps the keys the converter reads.  A key that a   *)
(* dict does not have is NoField.  Model file names and titles are drawn   *)
(* from small sets that hold one name for each case the converter tells    *)
(* apart.                                                                  *)
(***************************************************************************)
\* How many nodes a workflow has.
MaxNodes == 2
\* How often process_workflow_file is run on the file.
MaxRuns == 2
\* How often convert_workflow is applied to the workflow in memory.
MaxApplications == 2

NoField == "NoField"

Fp8Unet == "flux1-dev-kontext_fp8_scaled.safetensors"
Fp8T5 == "t5xxl_fp8_e4m3fn.safetensors"

MODEL_REPLACEMENTS ==
    [n \in {"flux1-dev-Q3_K_S.gguf", "flux1-dev-Q4_K_S.gguf",
            "flux1-dev-Q5_K_S.gguf", "flux1-dev-Q6_K.gguf",
            "flux1-dev-Q8_0.gguf", "t5-v1_1-xxl-encoder-Q3_K_S.gguf",
            "t5-v1_1-xxl-encoder-Q4_K_S.gguf",
            "t5-v1_1-xxl-encoder-Q5_K_S.gguf", "t5xxl-Q3_K_S.gguf"} |->
        IF n \in {"flux1-dev-Q3_K_S.gguf", "flux1-dev-Q4_K_S.gguf",
                  "flux1-dev-Q5_K_S.gguf", "flux1-dev-Q6_K.gguf",
                  "flux1-dev-Q8_0.gguf"}
        THEN Fp8Unet ELSE Fp8T5]

CLASS_TYPE_REPLACEMENTS ==
    [c \in {"UnetLoaderGGUF", "DualCLIPLoaderGGUF"} |->
        IF c = "UnetLoaderGGUF" THEN "UNETLoader" ELSE "DualCLIPLoader"]

\* The unet_name values of the model: one of the table, one GGUF file the
\* table does not list (upper-case suffix), and the FP8 file.
UnetNames == {"flux1-dev-Q4_K_S.gguf", "my-flux-Q4.GGUF", Fp8Unet}
\* The clip_name values: one of the table, a T5 GGUF file the table does
\* not list, a GGUF file that is no T5, and a safetensors file.
ClipNames == {"t5xxl-Q3_K_S.gguf", "T5-custom-Q8.gguf", "clip_l-Q8.gguf",
              "clip_l.safetensors"}

\* ".gguf" in name.lower()
HasGgufSuffix(name) ==
    name \in (DOMAIN MODEL_REPLACEMENTS)
               \cup {"my-flux-Q4.GGUF", "T5-custom-Q8.gguf", "clip_l-Q8.gguf"}
\* "t5" in name.lower()
HasT5(name) ==
    name \in {"t5-v1_1-xxl-encoder-Q3_K_S.gguf",
              "t5-v1_1-xxl-encoder-Q4_K_S.gguf",
              "t5-v1_1-xxl-encoder-Q5_K_S.gguf", "t5xxl-Q3_K_S.gguf",
              "T5-custom-Q8.gguf", Fp8T5}

\* "GGUF" in title
TitleHasGGUF(title) == title \in {"Load GGUF UNet", "GGUF Dual CLIP"}
\* title.replace("GGUF", "FP8")
TitleReplace(title) ==
    CASE title = "Load GGUF UNet" -> "Load FP8 UNet"
      [] title = "GGUF Dual CLIP" -> "FP8 Dual CLIP"
      [] OTHER -> title

\* The nodes of the model.  has_inputs says whether the node has the key
\* "inputs" at all.
UnetNodes ==
    { [class_type |-> c[1], title |-> c[2], has_inputs |-> i[1],
       unet_name |-> i[2], weight_dtype |-> i[3],
       clip_name1 |-> NoField, clip_name2 |-> NoField] :
        c \in {<<"UnetLoaderGGUF", "Load GGUF UNet">>,
               <<"UnetLoaderGGUF", NoField>>,
               <<"UNETLoader", NoField>>},
        i \in {<<FALSE, NoField, NoField>>}
                \cup {<<TRUE, u, w>> : u \in UnetNames,
                                       w \in {NoField, "default"}} }

ClipNodes ==
    { [class_type |-> c, title |-> NoField, has_inputs |-> TRUE,
       unet_name |-> NoField, weight_dtype |-> NoField,
       clip_name1 |-> n, clip_name2 |-> "clip_l.safetensors"] :
        c \in {"DualCLIPLoaderGGUF", "DualCLIPLoader"}, n \in ClipNames }

OtherNodes ==
    { [class_type |-> "KSampler", title |-> NoField, has_inputs |-> TRUE,
       unet_name |-> NoField, weight_dtype |-> NoField,
       clip_name1 |-> NoField, clip_name2 |-> NoField] }

NodeShapes == UnetNodes \cup ClipNodes \cup OtherNodes

Workflows == [1..MaxNodes -> NodeShapes]

\* The class_type and title step of the loop body.
ConvertClass(n) ==
    IF n.class_type \in DOMAIN CLASS_TYPE_REPLACEMENTS
    THEN [node |-> [n EXCEPT
                      !.class_type = CLASS_TYPE_REPLACEMENTS[n.class_type],
                      !.title = IF n.title # NoField /\ TitleHasGGUF(n.title)
                                THEN TitleReplace(n.title) ELSE n.title],
          modified |-> TRUE]
    ELSE [node |-> n, modified |-> FALSE]

\* One model name: the table first, then the generic fallback.
ConvertName(old_model, fallback, generic) ==
    IF old_model \in DOMAIN MODEL_REPLACEMENTS
    THEN [name |-> MODEL_REPLACEMENTS[old_model], modified |-> TRUE]
    ELSE IF generic
         THEN [name |-> fallback, modified |-> TRUE]
         ELSE [name |-> old_model, modified |-> FALSE]

\* The UNet step.  inputs = node_data.get("inputs", {}): for a node
\* without "inputs" the dict written to is a new one that is not put into
\* the node, while modified is set all the same.
ConvertUnet(class_type, n) ==
    IF class_type = "UnetLoaderGGUF" \/ n.class_type = "UNETLoader"
    THEN LET u == IF n.unet_name # NoField
                  THEN ConvertName(n.unet_name, Fp8Unet,
                                   HasGgufSuffix(n.unet_name))
                  ELSE [name |-> n.unet_name, modified |-> FALSE]
             addDtype == n.class_type = "UNETLoader"
                           /\ n.weight_dtype = NoField
         IN  [node |-> IF n.has_inputs
                       THEN [n EXCEPT !.unet_name = u.name,
                                      !.weight_dtype =
                                          IF addDtype THEN "fp8_e4m3fn"
                                          ELSE n.weight_dtype]
                       ELSE n,
              modified |-> u.modified \/ addDtype]
    ELSE [node |-> n, modified |-> FALSE]

\* The CLIP step, for clip_name1 and clip_name2.
ConvertClip(class_type, n) ==
    IF class_type = "DualCLIPLoaderGGUF" \/ n.class_type = "DualCLIPLoader"
    THEN LET c1 == IF n.clip_name1 # NoField
                   THEN ConvertName(n.clip_name1, Fp8T5,
                                    HasGgufSuffix(n.clip_name1)
                                      /\ HasT5(n.clip_name1))
                   ELSE [name |-> n.clip_name1, modified |-> FALSE]
             c2 == IF n.clip_name2 # NoField
                   THEN ConvertName(n.clip_name2, Fp8T5,
                                    HasGgufSuffix(n.clip_name2)
                                      /\ HasT5(n.clip_name2))
                   ELSE [name |-> n.clip_name2, modified |-> FALSE]
         IN  [node |-> [n EXCEPT !.clip_name1 = c1.name,
                                 !.clip_name2 = c2.name],
              modified |-> c1.modified \/ c2.modified]
    ELSE [node |-> n, modified |-> FALSE]

\* The loop body for one node: class_type is read once, before the
\* replacement.
ConvertNode(n) ==
    LET a == ConvertClass(n)
        b == ConvertUnet(n.class_type, a.node)
        c == ConvertClip(n.class_type, b.node)
    IN  [node |-> c.node,
         modified |-> a.modified \/ b.modified \/ c.modified]

\* convert_workflow(workflow_data).  The nodes are changed in place and the
\* object given is the object returned: after the call workflow_data is
\* the converted workflow.
convert_workflow(workflow_data) ==
    [workflow_data |-> [k \in DOMAIN workflow_data |->
                            ConvertNode(workflow_data[k]).node],
     modified |-> \E k \in DOMAIN workflow_data :
                      ConvertNode(workflow_data[k]).modified]

\* process_workflow_file(filepath, dry_run).  The backup is written from
\* workflow_data after convert_workflow has run on it.
process_workflow_file ==
    /\ file # NoFile
    /\ Len(runs) < MaxRuns
    /\ \E dry_run \in BOOLEAN :
          LET r == convert_workflow(file)
              workflow_data == r.workflow_data
              converted_data == r.workflow_data
              writes == r.modified /\ ~dry_run
          IN  /\ backup' = IF writes /\ backup = NoFile
                           THEN workflow_data ELSE backup
              /\ file' = IF writes THEN converted_data ELSE file
              /\ runs' = Append(runs, [dry_run |-> dry_run,
                                       returned |-> r.modified,
                                       wroteBackup |->
                                           writes /\ backup = NoFile])
    /\ UNCHANGED <<requestVars, callerVars, managerVars, cliVars, roundVars,
                   original, data, dataLog>>

\* data, modified = convert_workflow(data)
ConvertWorkflow ==
    /\ data # NoFile
    /\ Len(dataLog) < MaxApplications
    /\ LET r == convert_workflow(data)
       IN  /\ data' = r.workflow_data
           /\ dataLog' = Append(dataLog, r)
    /\ UNCHANGED <<requestVars, callerVars, managerVars, cliVars, roundVars,
                   file, original, backup, runs>>

\* Everything but the converter at rest.
ConverterRest ==
    /\ PipelineRequestInit("single")
    /\ script = "manager"
    /\ CallerInit
    /\ ManagerInit
    /\ CliInit
    /\ RoundsIdle

\* A workflow file, no backup next to it.
FileInit ==
    /\ ConverterRest
    /\ file \in Workflows
    /\ original = file
    /\ backup = NoFile
    /\ runs = <<>>
    /\ data = NoFile
    /\ dataLog = <<>>

FileNext == process_workflow_file

FileSpec == FileInit /\ [][FileNext]_vars

\* A workflow in memory.
ConvertInit ==
    /\ ConverterRest
    /\ data \in Workflows
    /\ dataLog = <<>>
    /\ file = NoFile
    /\ original = NoFile
    /\ backup = NoFile
    /\ runs = <<>>

ConvertNext == ConvertWorkflow

ConvertSpec == ConvertInit /\ [][ConvertNext]_vars

(***************************************************************************)
(* Properties.                                                             *)
(***************************************************************************)
\* The longest one iteration of a wait loop takes: the request and the
\* longest sleep of any handler.
LongestIteration == MaxQueryTime + 5

\* C1: no wait loop runs forever: a wait that is still running has not
\* passed the caller's deadline by more than the iteration it was in when
\* the deadline elapsed.
C1_WaitEndsAtDeadline ==
    pc = "wait" => now - start_time < Deadline + LongestIteration

\* C2: a failed status query never ends the wait: no wait that has polled
\* ends because a history request failed at the transport (connection
\* refused or reset, request timeout).
C2_FailedQueryNeverEndsWait ==
    polled => ~(result \in {"Aborted", "Crashed"}
                /\ raised = "RequestException")

\* C3: once a poll has read an error marker for the job, the wait has ended
\* at that poll as Failed and hands the caller the remote error message.
C3_RemoteErrorFailsWait ==
    lastSeen \in RemoteErrors =>
        /\ result = "Failed"
        /\ deliveredMsg = remoteMsg

Last(seq) == seq[Len(seq)]

\* C4: a submit makes the first POST and, while attempts fail at the
\* transport, up to max_retries more, each at least the fixed delay after
\* the one before; it gives up on transport failures only when the first
\* attempt and all max_retries retries have failed.
C4_SubmitRetries ==
    /\ Len(postLog) <= 1 + max_retries
    /\ \A i \in 2..Len(postLog) :
          postLog[i].at - postLog[i-1].at >= SubmitRetryDelay
    /\ (/\ result = "SubmitFailed"
        /\ \A i \in 1..Len(postLog) : postLog[i].answer.net = "conn_error")
       => Len(postLog) = 1 + max_retries

\* C5: an answer to the POST that is not a 200, or is a 200 without a
\* prompt_id, gives no job handle, and nothing is polled without a handle.
C5_BadSubmitGivesNoHandle ==
    /\ prompt_id # NoHandle =>
          /\ Last(postLog).answer.net = "ok"
          /\ Last(postLog).answer.status = 200
          /\ Last(postLog).answer.hasId
    /\ polled => prompt_id # NoHandle

\* C6: with a remote that never reached a terminal state, the timeout
\* comes at an elapsed time t with Deadline <= t < Deadline + poll interval.
C6_TimeoutWithinOneInterval ==
    (result = "TimedOut" /\ remote \notin RemoteTerminal) =>
        /\ endedAt >= Deadline
        /\ endedAt < Deadline + poll_interval(script)

\* C7: when the deadline elapses in the package's generate_image, the
\* caller receives the timeout error type.
C7_TimeoutErrorType ==
    (script = "manager" /\ result = "TimedOut") =>
        delivered = "ComfyUITimeoutError"

\* The documented bounds of the numeric settings: steps 1-100, cfg 0.5-15.0,
\* width and height multiples of 8 within 256-2048, seed >= -1, batch size
\* at least 1.
SettingsInBounds(r) ==
    /\ r.steps \in 1..100
    /\ r.cfg \in 5..150
    /\ r.width \in 256..2048 /\ r.width % 8 = 0
    /\ r.height \in 256..2048 /\ r.height % 8 = 0
    /\ r.seed >= -1
    /\ r.count >= 1

\* C8: for settings with a numeric field outside its bounds no network
\* request of any kind (health check, POST /prompt, history poll) is ever
\* issued.
C8_ValidationBeforeNetwork ==
    ~SettingsInBounds(requested) =>
        ~healthChecked /\ posts = 0 /\ ~polled

\* The range a script's own command line documents for --variations:
\* "(1-5)" in luxury_ai_pipeline, "(1-3)" in ultra_portrait_gen.
InDocumentedRange(s, r) ==
    CASE s = "luxury" -> r.count \in 1..5
      [] s = "ultra"  -> r.count \in 1..3
      [] OTHER -> TRUE

\* C9: a parameter outside its range is refused with an error; generation
\* never proceeds to a POST with a clamped value in its place.
C9_OutOfRangeRejected ==
    posts > 0 =>
        /\ InDocumentedRange(script, requested)
        /\ effective = requested

\* Field f of node n of graph w holds v.
Holds(w, n, f, v) ==
    /\ n \in DOMAIN w
    /\ f \in DOMAIN w[n]
    /\ w[n][f] = v

\* C10: the graph that is submitted holds the caller's steps, cfg and seed
\* at the sampler node and the caller's width and height at the latent
\* image node.
C10_GraphCarriesSettings ==
    (script \in {"manager", "flux_kontext"} /\ posts > 0) =>
        /\ Holds(workflow, SamplerNode(script), "steps", requested.steps)
        /\ Holds(workflow, SamplerNode(script), "cfg", requested.cfg)
        /\ Holds(workflow, SamplerNode(script), "seed", requested.seed)
        /\ Holds(workflow, LatentNode(script), "width", requested.width)
        /\ Holds(workflow, LatentNode(script), "height", requested.height)

\* The node/field pairs a script's builder writes into the template.
OverrideTargets(s, e) ==
    CASE s = "manager" ->
            {<<"3", "text">>, <<"6", "guidance">>, <<"7", "batch_size">>,
             <<"8", "steps">>}
            \cup (IF e.seed > 0 THEN {<<"9", "seed">>} ELSE {})
      [] s = "ultra" ->
            {<<"4", "text">>, <<"7", "batch_size">>, <<"7", "width">>,
             <<"7", "height">>, <<"8", "seed">>, <<"8", "steps">>,
             <<"8", "cfg">>, <<"8", "denoise">>, <<"6", "guidance">>,
             <<"10", "filename_prefix">>}
      [] s = "luxury" ->
            {<<"5", "text">>, <<"8", "seed">>, <<"10", "filename_prefix">>}
      [] OTHER -> {}

\* One of the pairs is absent from template t.
AbsentTarget(t, s, e) ==
    \E o \in OverrideTargets(s, e) :
        o[1] \notin DOMAIN t \/ o[2] \notin DOMAIN t[o[1]]

\* C11: when the builder writes a node/field pair that the template file
\* does not have, no graph is built and nothing is submitted.
C11_AbsentOverrideFailsBuild ==
    AbsentTarget(templateFile, script, effective) =>
        workflow = NoGraph /\ posts = 0

\* C15: every artifact a successful wait reports for the job is listed
\* under the job's own id in the history entry the wait read.
C15_OutputsOfOwnJob ==
    result = "Succeeded" => reported \subseteq Listed(lastSeen)

\* C16: building a graph leaves the template it was built from as it was
\* loaded.
C16_BuildLeavesTemplate ==
    template = templateFile

\* C17: a wait whose poll read an error marker together with a partial
\* output list never reports success.
C17_FailedTakesPrecedence ==
    lastSeen = "error_partial" => result # "Succeeded"

\* C18: once a poll before the deadline has read the job as finished with
\* success and with outputs, the wait has ended at that poll as Succeeded.
C18_SuccessAtObservingPoll ==
    lastSeen = "success" => result = "Succeeded"

\* C19: a wait reports success only after a poll has read the job's
\* history entry in a terminal state with a non-empty output list.
C19_SuccessNeedsOutputs ==
    result = "Succeeded" =>
        lastSeen \in RemoteTerminal /\ HasOutputs(lastSeen)

Tasks == 1..NJobs(mode)

\* The k-th task as the run has left it so far.
TaskResult(k)    == IF k = job THEN result ELSE saved[k].result
TaskHandle(k)    == IF k = job THEN prompt_id ELSE saved[k].prompt_id
TaskSubmitted(k) == saved[k].submitted \/ (k = job /\ posts > 0)
TaskPolled(k)    == saved[k].polled \/ (k = job /\ polled)

\* A task is in flight from the POST that gave it a prompt_id until the
\* call that waits for it has returned.
InFlight(k) == TaskHandle(k) # NoHandle /\ TaskResult(k) = "none"

\* C13: in sequential mode no POST is made for a task before every
\* earlier task of the list is over (succeeded, failed or timed out), and
\* at most one task is in flight.
C13_SequentialOneInFlight ==
    mode = "sequential" =>
        /\ \A k \in Tasks : TaskSubmitted(k) =>
               \A j \in 1..(k - 1) : TaskResult(j) # "none"
        /\ Cardinality({k \in Tasks : InFlight(k)}) <= 1

\* The second task of a sequential run is in flight after the wait for the
\* first one has ended.
C13_Witness ==
    /\ mode = "sequential"
    /\ job = 2
    /\ InFlight(2)
    /\ saved[1].prompt_id # NoHandle
    /\ saved[1].result \in {"Succeeded", "TimedOut"}

\* C14: in batch mode no task is polled before a POST was made for every
\* task, and when the run is over every task that got a prompt_id was
\* waited for to its own end: success, failure or its timeout.
C14_AllSubmittedEachAwaited ==
    mode = "batch" =>
        /\ (\E k \in Tasks : TaskPolled(k)) =>
               \A k \in Tasks : TaskSubmitted(k)
        /\ pc = "done" =>
               \A k \in Tasks : TaskHandle(k) # NoHandle =>
                  TaskResult(k) \in {"Succeeded", "Failed", "TimedOut"}

\* 0 Pending, 1 Running, 2 ended.
Stage(k) ==
    IF TaskResult(k) # "none" THEN 2
    ELSE IF TaskHandle(k) # NoHandle THEN 1 ELSE 0

\* C20: the status of a task never moves back, a task only becomes
\* TimedOut when its deadline has elapsed, and the status a task ended
\* with is never changed.
C20_StatusMovesForward ==
    [][\A k \in Tasks :
          /\ Stage(k)' >= Stage(k)
          /\ TaskResult(k) # "none" => TaskResult(k)' = TaskResult(k)
          /\ (TaskResult(k) = "none" /\ TaskResult(k)' = "TimedOut") =>
                 now - start_time >= Deadline]_vars

\* The first task timed out, and the run has since waited for the second
\* one, which succeeded.
C20_Witness ==
    /\ script \in {"ultra", "manager"}
    /\ job = 2
    /\ saved[1].result = "TimedOut"
    /\ polled
    /\ result = "Succeeded"

(***************************************************************************)
(* Properties of the poll interval.                                        *)
(***************************************************************************)
\* The loop goes on to another history request.
NextPollDue ==
    /\ pc = "wait"
    /\ polled
    /\ HasTimeout(script) => now - start_time < Deadline
    /\ now < MaxClock

\* C21: whenever the wait loop is about to issue another history request,
\* it has slept for the poll interval since the request before.
C21_SleepsBetweenPolls ==
    NextPollDue => lastSleep + SleepBeforePoll(script) >= poll_interval(script)

TaskWorkflow(k) == IF k = job THEN workflow ELSE saved[k].workflow

\* What the graph object of the k-th task holds now.  The graphs of the
\* two pipelines are template.copy(): the object has the template's node
\* dicts as its values, so it holds what the template holds.
GraphObject(k) ==
    IF script \in {"ultra", "luxury"} THEN template ELSE TaskWorkflow(k)

\* C23: the graph object of every task whose POST was accepted still holds
\* what was submitted.
C23_SubmittedGraphUnchanged ==
    \A k \in Tasks :
       TaskHandle(k) # NoHandle => GraphObject(k) = TaskWorkflow(k)

(***************************************************************************)
(* Properties of the node references.                                      *)
(***************************************************************************)
\* The references of a graph that name a node the graph does not have.
DanglingEdges(s, g) == {l \in Links(s, g) : l[2] \notin DOMAIN g}

\* C24: a graph that was submitted has no dangling edge: every node
\* reference in it names a node of the graph.
C24_NoDanglingEdges ==
    (script \in {"manager", "complex"} /\ posts > 0) =>
        DanglingEdges(script, workflow) = {}

(***************************************************************************)
(* The server process.                                                     *)
(***************************************************************************)
\* No CLI command has replaced the manager: the manager at hand made every
\* spawn.
OneManager == lastCli = "none"

\* C25: every server process the manager spawned and that has not ended is
\* tracked by the manager (is_running is True and process holds it), so
\* that stop_server terminates it; a start that fails or times out leaves
\* no spawned process behind.
C25_SpawnedIsTracked ==
    OneManager => \A p \in live : is_running /\ process = p

\* C26: when "server stop" returns 0 after a successful "server start",
\* the server that start left running has been terminated.
C26_CliStopTerminates ==
    (lastCli = "stop0" /\ cliStarted # NoProcess) => cliStarted \notin live

(***************************************************************************)
(* Runs over a list of jobs.                                               *)
(***************************************************************************)
RunEnded == rpc \in {"done", "raised", "hung"}

\* C27: in a run over several jobs every job is attempted whatever became
\* of the earlier ones: a run that has ended has taken up each of its
\* jobs.
C27_EveryJobAttempted ==
    RunEnded => Len(roundLog) = MaxRounds

AnyCompleted == \E k \in 1..Len(roundLog) : roundLog[k] = "completed"

\* C29: a run reports success if and only if at least one of its jobs
\* completed successfully.
C29_SuccessIffOneCompleted ==
    returned \in {"True", "False"} => ((returned = "True") <=> AnyCompleted)

(***************************************************************************)
(* The converter.                                                          *)
(***************************************************************************)
\* C28: when process_workflow_file converts a file (no dry run) and no
\* backup exists yet, the backup it writes holds the content the file had
\* before the conversion.
C28_BackupHoldsOriginal ==
    backup # NoFile => backup = original

\* C30: convert_workflow is idempotent: applied to a workflow it has
\* already converted, it leaves the workflow as it is and reports
\* was_modified = False.
C30_ConvertIdempotent ==
    Len(dataLog) >= 2 =>
        /\ dataLog[2].workflow_data = dataLog[1].workflow_data
        /\ ~dataLog[2].modified

====
